---- MODULE Spec2Model ----
(***************************************************************************)
(* A model of the labelled Matrix container of python/matrix.py.           *)
(*                                                                         *)
(* Python lists are objects: the model keeps them in a heap, so that two   *)
(* matrices holding the same list (an alias) are told from two matrices    *)
(* holding equal lists.  A Matrix object is a record of three references   *)
(* (elements, row_labels, column_labels); the elements list holds the      *)
(* references of the row lists.  The methods are modelled in two layers:   *)
(* an operator on matrix values that computes what the method computes,    *)
(* exceptions included, and an action that runs it on the heap.            *)
(*                                                                         *)
(* Indices are Python's: 0-based.  Only non-negative indices are drawn.    *)
(***************************************************************************)
EXTENDS Integers, Sequences, FiniteSets, TLC

VARIABLES
    py,     \* the interpreter's major version: 2 or 3
    heap,   \* reference -> list
    res,    \* the Matrix objects the last call returned
    call,   \* the last call: its name and its arguments
    err,    \* the exception the last call (or mutation) raised, "" if none
    old,    \* the value of the receiver when the last call was entered
    muts    \* in-place mutations applied to returned matrices since the call

vars == <<py, heap, res, call, err, old, muts>>

----------------------------------------------------------------------------
(* Bounds of the model *)

MaxCells == 4
MaxVal == 2
MaxIdx == 2
MaxMut == 1

Val == 1..MaxVal
\* Row labels are one-letter strings; RowNames lists them in lexicographic order.
RowNames == <<"a", "b">>
\* Column labels: slot 0 is the header of the row-label column.
ColNames == <<"id", "c0", "c1", "c2", "c3", "c4", "c5">>

----------------------------------------------------------------------------
(* Python helpers *)

Min(a, b) == IF a < b THEN a ELSE b

\* range(n) as a list
Range(n) == [i \in 1..n |-> i - 1]

\* lst[i] for a valid index i >= 0
At(lst, i) == lst[i + 1]

InRange(lst, i) == i \in 0..(Len(lst) - 1)

\* lst[:n] and lst[n:] for n >= 0
Take(lst, n) == SubSeq(lst, 1, Min(n, Len(lst)))
Drop(lst, n) == SubSeq(lst, n + 1, Len(lst))

\* the set of elements of a list
Elts(lst) == {lst[i] : i \in 1..Len(lst)}

\* lst.index(x): the first position of x
IndexOf(lst, x) == (CHOOSE i \in 1..Len(lst) : lst[i] = x /\ \A j \in 1..(i - 1) : lst[j] # x) - 1

\* all lists over S of length at most n
SeqsUpTo(S, n) == UNION {[1..k -> S] : k \in 0..n}

\* all orders random.shuffle can leave a list of n distinct indices in: the last
\* index put at every place of every order of the others
RECURSIVE Perms(_)
Perms(n) ==
    IF n = 0 THEN {<<>>}
    ELSE {SubSeq(p, 1, k) \o <<n - 1>> \o SubSeq(p, k + 1, n - 1) :
            p \in Perms(n - 1), k \in 0..(n - 1)}

\* the outcome of a method: the exception raised ("" if none) and the matrices returned
Ok(ms) == [exc |-> "", out |-> ms]
Raise(e) == [exc |-> e, out |-> <<>>]

----------------------------------------------------------------------------
(* Matrix values *)

MkMatrix(e, rl, cl) == [elements |-> e, row_labels |-> rl, column_labels |-> cl]

\* Matrix(rows, columns, default)
Matrix(nrows, ncolumns, default) ==
    MkMatrix([i \in 1..nrows |-> [j \in 1..ncolumns |-> default]], <<>>, <<>>)

rows(m) == Len(m.elements)

\* columns() reads the first row: defined only when there is one
HasRows(m) == Len(m.elements) > 0
columns(m) == Len(m.elements[1])

\* a matrix with at least one row and one column
Proper(m) == HasRows(m) /\ columns(m) >= 1

\* column(index), defined when every row has the index
column(m, index) == [i \in 1..Len(m.elements) |-> At(m.elements[i], index)]
ColumnOk(m, index) == \A i \in 1..Len(m.elements) : InRange(m.elements[i], index)

\* The invariants of the data model
Rectangular(m) == \A i, j \in 1..Len(m.elements) : Len(m.elements[i]) = Len(m.elements[j])
RowLabelsOk(m) == Len(m.row_labels) = 0 \/ Len(m.row_labels) = Len(m.elements)
ColumnLabelsOk(m) ==
    Len(m.column_labels) = 0 \/ (HasRows(m) => Len(m.column_labels) - 1 = columns(m))
WellFormed(m) == Rectangular(m) /\ RowLabelsOk(m) /\ ColumnLabelsOk(m)

----------------------------------------------------------------------------
(* submatrix, copy, transpose *)

\* submatrix with the row labels taken from the front of the list instead of
\* from the selected rows
submatrix_front_labels(m, rws, cls) ==
    IF \E k \in 1..Len(rws) : ~InRange(m.elements, rws[k])
      THEN Raise("IndexError")
    ELSE IF \E k \in 1..Len(rws), l \in 1..Len(cls) : ~InRange(At(m.elements, rws[k]), cls[l])
      THEN Raise("IndexError")
    ELSE Ok(<<MkMatrix(
            [k \in 1..Len(rws) |-> [l \in 1..Len(cls) |-> At(At(m.elements, rws[k]), cls[l])]],
            Take(m.row_labels, Len(rws)),
            IF Len(m.column_labels) > 0
              THEN <<At(m.column_labels, 0)>> \o [l \in 1..Len(cls) |-> At(m.column_labels, cls[l])]
              ELSE <<>>)>>)

submatrix(m, rws, cls) ==
    IF \E k \in 1..Len(rws) : ~InRange(m.elements, rws[k])
      THEN Raise("IndexError")
    ELSE IF \E k \in 1..Len(rws), l \in 1..Len(cls) : ~InRange(At(m.elements, rws[k]), cls[l])
      THEN Raise("IndexError")
    ELSE IF Len(m.row_labels) > 0 /\ \E k \in 1..Len(rws) : ~InRange(m.row_labels, rws[k])
      THEN Raise("IndexError")
    ELSE IF Len(m.column_labels) > 0 /\ \E l \in 1..Len(cls) : ~InRange(m.column_labels, cls[l])
      THEN Raise("IndexError")
    ELSE Ok(<<MkMatrix(
            [k \in 1..Len(rws) |-> [l \in 1..Len(cls) |-> At(At(m.elements, rws[k]), cls[l])]],
            IF Len(m.row_labels) > 0
              THEN [k \in 1..Len(rws) |-> At(m.row_labels, rws[k])]
              ELSE <<>>,
            IF Len(m.column_labels) > 0
              THEN <<At(m.column_labels, 0)>> \o [l \in 1..Len(cls) |-> At(m.column_labels, cls[l])]
              ELSE <<>>)>>)

copy(m) ==
    IF ~HasRows(m) THEN Raise("IndexError")
    ELSE submatrix(m, Range(rows(m)), Range(columns(m)))

\* transpose with the cells left where they were in a square matrix
transpose_no_exchange(m) ==
    IF ~HasRows(m) THEN Raise("IndexError")
    ELSE IF \E i \in 1..rows(m) : Len(m.elements[i]) < columns(m) THEN Raise("IndexError")
    ELSE [exc |-> "",
          out |-> <<MkMatrix(
                      [j \in 1..columns(m) |-> [i \in 1..rows(m) |->
                          IF rows(m) = columns(m) THEN m.elements[j][i] ELSE m.elements[i][j]]],
                      m.column_labels,
                      m.row_labels)>>,
          share |-> [row_labels |-> "column_labels", column_labels |-> "row_labels"]]

\* transpose(): new element lists; the label attributes are assigned the
\* receiver's own lists, swapped: `share` names, for each label attribute of the
\* result, the attribute of the receiver whose list it holds
transpose(m) ==
    IF ~HasRows(m) THEN Raise("IndexError")
    ELSE IF \E i \in 1..rows(m) : Len(m.elements[i]) < columns(m) THEN Raise("IndexError")
    ELSE [exc |-> "",
          out |-> <<MkMatrix(
                      [j \in 1..columns(m) |-> [i \in 1..rows(m) |-> m.elements[i][j]]],
                      m.column_labels,
                      m.row_labels)>>,
          share |-> [row_labels |-> "column_labels", column_labels |-> "row_labels"]]

----------------------------------------------------------------------------
(* sorted, sorted_row_labels, shuffled, random_subset, random_split *)

\* pairs ordered by key alone, later rows first among equal keys
PairLessLaterFirst(p, q) == p[1] < q[1] \/ (p[1] = q[1] /\ p[2] > q[2])

\* Python orders tuples lexicographically: (key, index) pairs
PairLess(p, q) == p[1] < q[1] \/ (p[1] = q[1] /\ p[2] < q[2])

\* list.sort() on pairwise distinct pairs: the one ascending order of them
Insert(srt, p) ==
    LET k == Cardinality({i \in 1..Len(srt) : PairLess(srt[i], p)})
    IN  SubSeq(srt, 1, k) \o <<p>> \o SubSeq(srt, k + 1, Len(srt))

RECURSIVE SortPairs(_)
SortPairs(s) ==
    IF Len(s) = 0 THEN <<>>
    ELSE Insert(SortPairs(SubSeq(s, 1, Len(s) - 1)), s[Len(s)])

\* the strings of the model in Python's (lexicographic) order
Lex == <<"a", "b", "c0", "c1", "c2", "c3", "c4", "c5", "id">>
StrRank(s) == CHOOSE i \in 1..Len(Lex) : Lex[i] = s

\* zip(keys, range(n)): as long as the shorter of the two
Zip(keys, n) == [i \in 1..Min(Len(keys), n) |-> <<keys[i], i - 1>>]

Seconds(ps) == [i \in 1..Len(ps) |-> ps[i][2]]

sorted(m, column_index) ==
    IF ~ColumnOk(m, column_index) THEN Raise("IndexError")
    ELSE IF ~HasRows(m) THEN Raise("IndexError")
    ELSE submatrix(m, Seconds(SortPairs(Zip(column(m, column_index), rows(m)))),
                   Range(columns(m)))

sorted_row_labels(m) ==
    IF ~HasRows(m) THEN Raise("IndexError")
    ELSE submatrix(m,
            Seconds(SortPairs(Zip([i \in 1..Len(m.row_labels) |-> StrRank(m.row_labels[i])],
                                  rows(m)))),
            Range(columns(m)))

\* shuffle leaves the row indices in the order perm
shuffled(m, perm) ==
    IF ~HasRows(m) THEN Raise("IndexError")
    ELSE submatrix(m, perm, Range(columns(m)))

\* shuffle(range(n)): Python 2's range is a list; Python 3's is immutable, and
\* shuffle assigns to it as soon as it has two items
random_subset(v, m, n, perm) ==
    IF v = 3 /\ rows(m) >= 2 THEN Raise("TypeError")
    ELSE IF ~HasRows(m) THEN Raise("IndexError")
    ELSE submatrix(m, Take(perm, n), Range(columns(m)))

\* the two results of a pair of calls, or the first exception
Both(a, b) ==
    IF a.exc # "" THEN a
    ELSE IF b.exc # "" THEN b
    ELSE Ok(a.out \o b.out)

\* rows[num_rows/2:]: Python 3's / yields a float, which is no slice index
random_split(v, m, perm) ==
    IF ~HasRows(m) THEN Raise("IndexError")
    ELSE IF v = 3 THEN Raise("TypeError")
    ELSE LET num_rows == rows(m)
             a == submatrix(m, Take(perm, num_rows \div 2), Range(columns(m)))
             b == submatrix(m, Drop(perm, num_rows \div 2), Range(columns(m)))
             r == Both(a, b)
         IN  IF r.exc = "" /\ rows(r.out[1]) + rows(r.out[2]) # num_rows
               THEN Raise("AssertionError")
               ELSE r

----------------------------------------------------------------------------
(* split, split_regression, extract, discrete_split, class_subset *)

\* the indices i (0-based, ascending) with flags[i + 1]
RECURSIVE PickIdx(_, _)
PickIdx(flags, n) ==
    IF n = 0 THEN <<>>
    ELSE PickIdx(flags, n - 1) \o (IF flags[n] THEN <<n - 1>> ELSE <<>>)

Where(flags) == PickIdx(flags, Len(flags))

RowsAt(m, idx) == [k \in 1..Len(idx) |-> At(m.elements, idx[k])]

split(m, col, value) ==
    IF ~ColumnOk(m, col) THEN Raise("IndexError")
    ELSE LET lt == [i \in 1..rows(m) |-> At(m.elements[i], col) < value]
             ge == [i \in 1..rows(m) |-> ~lt[i]]
         IN  Ok(<<MkMatrix(RowsAt(m, Where(lt)), <<>>, <<>>),
                  MkMatrix(RowsAt(m, Where(ge)), <<>>, <<>>)>>)

split_regression(m, col, slope, b) ==
    IF ~ColumnOk(m, col) THEN Raise("IndexError")
    ELSE IF ~HasRows(m) THEN Raise("IndexError")
    ELSE LET lt == [i \in 1..rows(m) |-> At(m.elements[i], col) * slope < b]
             ge == [i \in 1..rows(m) |-> ~lt[i]]
         IN  Both(submatrix(m, Where(lt), Range(columns(m))),
                  submatrix(m, Where(ge), Range(columns(m))))

\* extract with >= for ==
extract_at_least(m, col, value) ==
    IF ~ColumnOk(m, col) THEN Raise("IndexError")
    ELSE IF ~HasRows(m) THEN Raise("IndexError")
    ELSE submatrix(m, Where([i \in 1..rows(m) |-> At(m.elements[i], col) >= value]),
                   Range(columns(m)))

extract(m, col, value) ==
    IF ~ColumnOk(m, col) THEN Raise("IndexError")
    ELSE IF ~HasRows(m) THEN Raise("IndexError")
    ELSE submatrix(m, Where([i \in 1..rows(m) |-> At(m.elements[i], col) = value]),
                   Range(columns(m)))

\* the orders a set can be iterated in
Orders(S) == {o \in [1..Cardinality(S) -> S] : \A i, j \in DOMAIN o : i # j => o[i] # o[j]}

RECURSIVE ExtractAll(_, _, _, _)
ExtractAll(m, col, classes, k) ==
    IF k > Len(classes) THEN Ok(<<>>)
    ELSE Both(extract(m, col, classes[k]), ExtractAll(m, col, classes, k + 1))

\* classes: the distinct values of the column, in the order the set yields them
discrete_split(m, col, classes) ==
    IF ~ColumnOk(m, col) THEN Raise("IndexError")
    ELSE ExtractAll(m, col, classes, 1)

\* merge_vertical(other) on values: the labels and (copies of) the rows appended
merge_vertical(m, other) ==
    MkMatrix(m.elements \o other.elements, m.row_labels \o other.row_labels, m.column_labels)

RECURSIVE SubsetAll(_, _, _, _, _, _)
SubsetAll(v, result, matrices, n, perms, k) ==
    IF k > Len(matrices) THEN Ok(<<result>>)
    ELSE LET sm == random_subset(v, matrices[k], n, perms[k])
         IN  IF sm.exc # "" THEN sm
             ELSE SubsetAll(v, merge_vertical(result, sm.out[1]), matrices, n, perms, k + 1)

\* perms[k]: the order shuffle leaves the rows of the k-th group in
class_subset(v, m, col, n, classes, perms) ==
    LET d == discrete_split(m, col, classes)
    IN  IF d.exc # "" THEN d
        ELSE IF ~(Len(d.out) > 1) THEN Raise("AssertionError")
        ELSE SubsetAll(v, Matrix(0, 0, 0), d.out, n, perms, 1)

----------------------------------------------------------------------------
(* The heap *)

Ref(owner, kind, i) == <<owner, kind, i>>

\* the Matrix object built in region `owner`
Obj(owner) ==
    [elements |-> Ref(owner, "elements", 0),
     row_labels |-> Ref(owner, "row_labels", 0),
     column_labels |-> Ref(owner, "column_labels", 0)]

\* the lists of a freshly built matrix of value m
Frag(owner, m) ==
    [r \in {Ref(owner, "elements", 0), Ref(owner, "row_labels", 0), Ref(owner, "column_labels", 0)}
           \cup {Ref(owner, "row", i) : i \in 1..Len(m.elements)} |->
        IF r[2] = "elements" THEN [i \in 1..Len(m.elements) |-> Ref(owner, "row", i)]
        ELSE IF r[2] = "row_labels" THEN m.row_labels
        ELSE IF r[2] = "column_labels" THEN m.column_labels
        ELSE m.elements[r[3]]]

\* the value of Matrix object M in heap h
View(h, M) ==
    MkMatrix([i \in 1..Len(h[M.elements]) |-> h[h[M.elements][i]]],
             h[M.row_labels], h[M.column_labels])

\* regions of the heap: 0 holds the receiver, k > 0 the k-th matrix returned
Self == Obj(0)

\* the lists reachable from the receiver
Keep(h) == [r \in {x \in DOMAIN h : x[1] = 0} |-> h[r]]

RECURSIVE Frags(_, _)
Frags(ms, k) ==
    IF k > Len(ms) THEN <<>>
    ELSE Frag(k, ms[k]) @@ Frags(ms, k + 1)

\* a call on the receiver returns: fresh matrices for r.out, the previous results dropped
Return(c, r) ==
    /\ call' = c
    /\ err' = r.exc
    /\ old' = View(heap, Self)
    /\ heap' = Keep(heap) @@ Frags(r.out, 1)
    /\ res' = [k \in 1..Len(r.out) |-> Obj(k)]
    /\ muts' = 0
    /\ UNCHANGED py

Fresh == call.op = "init"

----------------------------------------------------------------------------
(* In-place operations on a Matrix object M of heap h: [exc, heap] *)

Done(h) == [exc |-> "", heap |-> h]
Fail(e, h) == [exc |-> e, heap |-> h]

\* M[i][j] = v
setitem(h, M, i, j, v) ==
    IF ~InRange(h[M.elements], i) THEN Fail("IndexError", h)
    ELSE LET r == At(h[M.elements], i)
         IN  IF ~InRange(h[r], j) THEN Fail("IndexError", h)
             ELSE Done([h EXCEPT ![r][j + 1] = v])

\* M.merge_vertical(other): other's labels appended to M's row_labels list, a copy
\* of each row of other appended to M's elements list
hmerge_vertical(h, M, other) ==
    LET owner == M.elements[1]
        n == Len(h[M.elements])
        fresh == [k \in 1..Len(other.elements) |-> Ref(owner, "row", n + k)]
        h1 == [h EXCEPT ![M.row_labels] = @ \o other.row_labels]
        h2 == [h1 EXCEPT ![M.elements] = @ \o fresh]
    IN  Done([r \in Elts(fresh) |-> other.elements[r[3] - n]] @@ h2)

\* the loop of merge over other.row_labels, from its k-th label on
RECURSIVE MergeRows(_, _, _, _)
MergeRows(h, M, other, k) ==
    IF k > Len(other.row_labels) THEN Done(h)
    ELSE LET label == other.row_labels[k]
         IN  IF label \notin Elts(h[M.row_labels]) THEN Fail("ValueError", h)
             ELSE IF ~InRange(h[M.elements], IndexOf(h[M.row_labels], label))
               THEN Fail("IndexError", h)
             ELSE IF ~InRange(other.elements, IndexOf(other.row_labels, label))
               THEN Fail("IndexError", h)
             ELSE LET row == At(h[M.elements], IndexOf(h[M.row_labels], label))
                      other_row == At(other.elements, IndexOf(other.row_labels, label))
                  IN  MergeRows([h EXCEPT ![row] = @ \o other_row], M, other, k + 1)

\* merge by position: the i-th row of other appended to the i-th row of M
hmerge_by_position(h, M, other) ==
    LET h1 == [h EXCEPT ![M.column_labels] = @ \o Drop(other.column_labels, 1)]
        n == Min(Len(h[M.elements]), Len(other.elements))
    IN  Done([r \in DOMAIN h1 |->
                IF \E i \in 1..n : h[M.elements][i] = r
                  THEN h1[r] \o other.elements[CHOOSE i \in 1..n : h[M.elements][i] = r]
                  ELSE h1[r]])

\* M.merge(other): the column labels are appended first, then the rows are
\* extended label by label; get_row raises at the first label M does not have
hmerge(h, M, other) ==
    MergeRows([h EXCEPT ![M.column_labels] = @ \o Drop(other.column_labels, 1)], M, other, 1)

\* simple_merge(other): a new matrix
simple_merge(m, other) ==
    IF rows(m) # rows(other) THEN Raise("AssertionError")
    ELSE LET s == copy(m)
         IN  IF s.exc # "" THEN s
             ELSE Ok(<<MkMatrix([i \in 1..rows(m) |-> s.out[1].elements[i] \o other.elements[i]],
                                s.out[1].row_labels,
                                s.out[1].column_labels \o Drop(other.column_labels, 1))>>)

\* validate(duplicates_allowed): the exception raised, "" when validation passes
validate(m, duplicates_allowed) ==
    IF \E i \in 1..rows(m) : Len(m.elements[i]) # Len(m.column_labels) - 1 THEN "Exception"
    ELSE IF Len(m.elements) # Len(m.row_labels) THEN "Exception"
    ELSE IF ~duplicates_allowed /\ Len(m.row_labels) # Cardinality(Elts(m.row_labels))
      THEN "Exception"
    ELSE IF ~duplicates_allowed /\ Len(m.column_labels) # Cardinality(Elts(m.column_labels))
      THEN "Exception"
    ELSE ""

----------------------------------------------------------------------------
(* Inputs *)

\* a matrix whose cells all differ: cell (i, j) of an r x c matrix holds base + i*c + j
Coded(r, c, base) == [i \in 1..r |-> [j \in 1..c |-> base + (i - 1) * c + j]]

Shapes == {s \in (0..MaxCells) \X (0..MaxCells) : s[1] * s[2] <= MaxCells}

\* The labels a well-formed matrix of elements e can carry: no row labels or one
\* per row; no column labels or one per column after the header slot (any number
\* when there is no row to count the columns on)
RowLabelsFor(e) == {<<>>} \cup [1..Len(e) -> Elts(RowNames)]
ColumnLabelsFor(e) ==
    IF Len(e) = 0 THEN {SubSeq(ColNames, 1, k) : k \in 0..(MaxCells + 1)}
    ELSE {<<>>, SubSeq(ColNames, 1, Len(e[1]) + 1)}
Labelled(e) == {MkMatrix(e, rl, cl) : rl \in RowLabelsFor(e), cl \in ColumnLabelsFor(e)}

\* The matrices over Val a program can build: Matrix(r, c), element assignment, labels
Matrices == UNION {[1..s[1] -> [1..s[2] -> Val]] : s \in Shapes}

InitMatrices == UNION {Labelled(e) : e \in Matrices}

\* Matrices with pairwise different cells, for the operations that only move cells
CodedMatrices(base) == UNION {Labelled(Coded(s[1], s[2], base)) : s \in Shapes}

Others == CodedMatrices(100)

----------------------------------------------------------------------------
(* Actions *)

InitFrom(F) ==
    /\ py \in {2, 3}
    /\ \E m \in F : heap = Frag(0, m) /\ old = m
    /\ res = <<>>
    /\ call = [op |-> "init"]
    /\ err = ""
    /\ muts = 0

Init == InitFrom(CodedMatrices(0))

\* the column indices tried on the receiver: each of its columns, and the first
\* index past them
ColumnArgs == 0..(IF HasRows(old) THEN columns(old) ELSE 0)

Submatrix ==
    /\ Fresh
    /\ \E rws \in SeqsUpTo(0..rows(old), MaxIdx) :
       \E cls \in SeqsUpTo(ColumnArgs, MaxIdx) :
         Return([op |-> "submatrix", rows |-> rws, columns |-> cls],
                submatrix(View(heap, Self), rws, cls))

Copy ==
    /\ Fresh
    /\ Return([op |-> "copy"], copy(View(heap, Self)))

\* the lists a transposed matrix of value t gets for itself, in region `owner`
OwnLists(owner, t) ==
    [x \in {Ref(owner, "elements", 0)} \cup {Ref(owner, "row", i) : i \in 1..rows(t)} |->
        Frag(owner, t)[x]]

\* the object transpose() returns on receiver M: its own elements, M's label lists
Transposed(owner, M, share) ==
    [elements |-> Ref(owner, "elements", 0),
     row_labels |-> M[share.row_labels],
     column_labels |-> M[share.column_labels]]

Transpose ==
    /\ Fresh
    /\ LET r == transpose(View(heap, Self))
       IN  /\ call' = [op |-> "transpose"]
           /\ err' = r.exc
           /\ old' = View(heap, Self)
           /\ muts' = 0
           /\ IF r.exc # ""
                THEN heap' = Keep(heap) /\ res' = <<>>
                ELSE /\ heap' = Keep(heap) @@ OwnLists(1, r.out[1])
                     /\ res' = <<Transposed(1, Self, r.share)>>
    /\ UNCHANGED py

\* m.transpose().transpose(): the second call, on the matrix the first returned
TransposeAgain ==
    /\ call.op = "transpose" /\ err = "" /\ muts = 0
    /\ LET r == transpose(View(heap, res[1]))
       IN  /\ call' = [op |-> "transpose.transpose"]
           /\ err' = r.exc
           /\ IF r.exc # ""
                THEN heap' = heap /\ res' = res
                ELSE /\ heap' = heap @@ OwnLists(2, r.out[1])
                     /\ res' = res \o <<Transposed(2, res[1], r.share)>>
    /\ UNCHANGED <<py, old, muts>>

Sorted ==
    /\ Fresh
    /\ \E c \in ColumnArgs :
         Return([op |-> "sorted", column |-> c], sorted(View(heap, Self), c))

SortedRowLabels ==
    /\ Fresh
    /\ Return([op |-> "sorted_row_labels"], sorted_row_labels(View(heap, Self)))

Shuffled ==
    /\ Fresh
    /\ \E perm \in Perms(rows(old)) :
         Return([op |-> "shuffled", perm |-> perm], shuffled(View(heap, Self), perm))

RandomSubset ==
    /\ Fresh
    /\ \E n \in 0..(MaxCells + 1), perm \in Perms(rows(old)) :
         Return([op |-> "random_subset", n |-> n, perm |-> perm],
                random_subset(py, View(heap, Self), n, perm))

RandomSplit ==
    /\ Fresh
    /\ \E perm \in Perms(rows(old)) :
         Return([op |-> "random_split", perm |-> perm],
                random_split(py, View(heap, Self), perm))

Split ==
    /\ Fresh
    /\ \E c \in ColumnArgs, value \in 1..(MaxVal + 1) :
         Return([op |-> "split", column |-> c, value |-> value],
                split(View(heap, Self), c, value))

SplitRegression ==
    /\ Fresh
    /\ \E c \in ColumnArgs, slope \in {1, 2}, b \in 1..(MaxVal + 1) :
         Return([op |-> "split_regression", column |-> c, m |-> slope, b |-> b],
                split_regression(View(heap, Self), c, slope, b))

Extract ==
    /\ Fresh
    /\ \E c \in ColumnArgs, value \in Val :
         Return([op |-> "extract", column |-> c, value |-> value],
                extract(View(heap, Self), c, value))

\* the orders the set of the column's values can be iterated in
ClassOrders(m, c) == IF ColumnOk(m, c) THEN Orders(Elts(column(m, c))) ELSE {<<>>}

DiscreteSplit ==
    /\ Fresh
    /\ \E c \in ColumnArgs :
       \E classes \in ClassOrders(old, c) :
         Return([op |-> "discrete_split", column |-> c, classes |-> classes],
                discrete_split(View(heap, Self), c, classes))

\* one shuffle outcome per group
RECURSIVE ShufflesFrom(_, _)
ShufflesFrom(ms, k) ==
    IF k > Len(ms) THEN {<<>>}
    ELSE {<<p>> \o rest : p \in Perms(rows(ms[k])), rest \in ShufflesFrom(ms, k + 1)}

ShuffleChoices(ms) == ShufflesFrom(ms, 1)

ClassSubset ==
    /\ Fresh
    /\ \E c \in ColumnArgs, n \in 0..MaxCells :
       \E classes \in ClassOrders(old, c) :
       \E perms \in ShuffleChoices(discrete_split(old, c, classes).out) :
         Return([op |-> "class_subset", column |-> c, n |-> n, classes |-> classes,
                 perms |-> perms],
                class_subset(py, View(heap, Self), c, n, classes, perms))

SimpleMerge ==
    /\ Fresh
    /\ \E other \in Others :
         Return([op |-> "simple_merge", other |-> other],
                simple_merge(View(heap, Self), other))

\* an in-place call on the receiver
InPlace(c, r) ==
    /\ call' = c
    /\ err' = r.exc
    /\ old' = View(heap, Self)
    /\ heap' = r.heap
    /\ UNCHANGED <<py, res, muts>>

Merge ==
    /\ Fresh
    /\ \E other \in Others :
         InPlace([op |-> "merge", other |-> other], hmerge(heap, Self, other))

MergeVertical ==
    /\ Fresh
    /\ \E other \in Others :
         InPlace([op |-> "merge_vertical", other |-> other],
                 hmerge_vertical(heap, Self, other))

Validate ==
    /\ Fresh
    /\ \E d \in BOOLEAN :
         InPlace([op |-> "validate", duplicates_allowed |-> d],
                 Fail(validate(View(heap, Self), d), heap))

\* The calls that return new matrices and are documented to leave the receiver alone
NonDestructive ==
    {"submatrix", "copy", "transpose", "sorted", "sorted_row_labels", "shuffled",
     "random_subset", "random_split", "split", "split_regression", "extract",
     "discrete_split"}

\* the matrices merged into a returned matrix: one row, one column
MutOthers == {m \in Others : rows(m) = 1 /\ Len(m.elements[1]) = 1}

CanMutate == call.op \in NonDestructive /\ err = "" /\ muts < MaxMut

\* an in-place mutation of a returned matrix
Mutate(r) ==
    /\ heap' = r.heap
    /\ err' = r.exc
    /\ muts' = muts + 1
    /\ UNCHANGED <<py, res, call, old>>

\* res[k][i][j] = v, for a cell the returned matrix has
MutSetItem ==
    /\ CanMutate
    /\ \E k \in 1..Len(res) :
       \E i \in 0..(Len(heap[res[k].elements]) - 1) :
       \E j \in 0..(Len(heap[At(heap[res[k].elements], i)]) - 1) :
         Mutate(setitem(heap, res[k], i, j, 0))

MutMergeVertical ==
    /\ CanMutate
    /\ \E k \in 1..Len(res), other \in MutOthers :
         Mutate(hmerge_vertical(heap, res[k], other))

MutMerge ==
    /\ CanMutate
    /\ \E k \in 1..Len(res), other \in MutOthers :
         Mutate(hmerge(heap, res[k], other))

Next ==
    \/ Submatrix
    \/ Copy
    \/ Transpose
    \/ TransposeAgain
    \/ Sorted
    \/ SortedRowLabels
    \/ Shuffled
    \/ RandomSubset
    \/ RandomSplit
    \/ Split
    \/ SplitRegression
    \/ Extract
    \/ DiscreteSplit
    \/ ClassSubset
    \/ SimpleMerge
    \/ Merge
    \/ MergeVertical
    \/ Validate
    \/ MutSetItem
    \/ MutMergeVertical
    \/ MutMerge

\* The whole interface, on matrices with pairwise different cells
Spec == Init /\ [][Next]_vars

\* Slicing
NextSlice == Submatrix \/ Copy
SpecSlice == InitFrom(CodedMatrices(0)) /\ [][NextSlice]_vars

\* Transposition, once and twice, on every matrix over Val
NextTranspose == Transpose \/ TransposeAgain
SpecTranspose == InitFrom(InitMatrices) /\ [][NextTranspose]_vars

\* Sorting
NextSort == Sorted \/ SortedRowLabels
SpecSort == InitFrom(InitMatrices) /\ [][NextSort]_vars

\* Sampling: every outcome of the shuffle
NextSample == Shuffled \/ RandomSubset \/ RandomSplit
SpecSample == InitFrom(InitMatrices) /\ [][NextSample]_vars

\* Partitioning by value
NextPartition == Split \/ Extract \/ DiscreteSplit
SpecPartition == InitFrom(InitMatrices) /\ [][NextPartition]_vars

\* Balanced sampling: class_subset and the random_subset it takes of every group
NextClassSubset == ClassSubset \/ RandomSubset
SpecClassSubset == InitFrom(InitMatrices) /\ [][NextClassSubset]_vars

\* Merging into the receiver
NextMerge == Merge \/ MergeVertical \/ SimpleMerge \/ Validate
SpecMerge == InitFrom(CodedMatrices(0)) /\ [][NextMerge]_vars

----------------------------------------------------------------------------
(* Claims *)

\* the indices of the last submatrix call are indices of the receiver
IndicesInRange ==
    /\ \A k \in 1..Len(call.rows) : InRange(old.elements, call.rows[k])
    /\ \A l \in 1..Len(call.columns) :
         HasRows(old) /\ call.columns[l] \in 0..(columns(old) - 1)

C4_Original ==
    /\ (call.op = "transpose" /\ HasRows(old)) =>
         /\ err = "" /\ Len(res) = 1
         /\ \A i \in 1..rows(old), j \in 1..columns(old) :
              View(heap, res[1]).elements[j][i] = old.elements[i][j]
    /\ (call.op = "transpose.transpose" /\ HasRows(old)) =>
         /\ err = "" /\ Len(res) = 2
         /\ View(heap, res[2]) = old

\* C4, amended: the same for every matrix with at least one row and at least one
\* column; the first transpose has columns(m) rows of rows(m) cells each.
C4_TransposeTwice ==
    /\ (call.op = "transpose" /\ HasRows(old) /\ columns(old) >= 1) =>
         /\ err = "" /\ Len(res) = 1
         /\ LET t == View(heap, res[1])
            IN  /\ rows(t) = columns(old)
                /\ \A j \in 1..columns(old) :
                     /\ Len(t.elements[j]) = rows(old)
                     /\ \A i \in 1..rows(old) : t.elements[j][i] = old.elements[i][j]
    /\ (call.op = "transpose.transpose" /\ HasRows(old) /\ columns(old) >= 1) =>
         /\ err = "" /\ Len(res) = 2
         /\ View(heap, res[2]) = old

\* a labelled 2 x 2 matrix that is not symmetric, transposed twice
C4_Witness ==
    /\ call.op = "transpose.transpose" /\ err = ""
    /\ rows(old) = 2 /\ columns(old) = 2
    /\ old.elements[1][2] # old.elements[2][1]
    /\ Len(old.row_labels) = 2 /\ Len(old.column_labels) = 3
    /\ View(heap, res[2]) = old

\* the rows of s are the rows of m (each with its label) in the order p, sorted
\* by key, rows of equal key in their original order
SortedBy(s, m, key, p) ==
    /\ \A k, l \in 1..rows(m) :
         k < l => \/ At(key, p[k]) < At(key, p[l])
                  \/ (At(key, p[k]) = At(key, p[l]) /\ p[k] < p[l])
    /\ \A k \in 1..rows(m) :
         /\ s.elements[k] = At(m.elements, p[k])
         /\ Len(m.row_labels) > 0 => s.row_labels[k] = At(m.row_labels, p[k])

\* the one order of the indices 0..n-1 that is ascending in (key, index)
StableOrder(key) ==
    [k \in 1..Len(key) |->
        (CHOOSE i \in 1..Len(key) :
            Cardinality({j \in 1..Len(key) :
                key[j] < key[i] \/ (key[j] = key[i] /\ j < i)}) = k - 1) - 1]

IsStableSort(s, m, key) ==
    /\ rows(s) = rows(m)
    /\ Len(s.row_labels) = Len(m.row_labels)
    /\ Len(key) = rows(m)
    /\ SortedBy(s, m, key, StableOrder(key))

LabelKeys(m) == [i \in 1..Len(m.row_labels) |-> StrRank(m.row_labels[i])]

SortedCase ==
    (call.op = "sorted" /\ HasRows(old) /\ call.column < columns(old)) =>
        /\ err = "" /\ Len(res) = 1
        /\ IsStableSort(View(heap, res[1]), old, column(old, call.column))

\* C5 as stated: for every matrix and column c, sorted(c) returns the rows (with
\* their row labels) permuted so that column c is non-decreasing, rows of equal
\* value in their original order; sorted_row_labels() does the same with the row
\* label as the key, for every matrix.
C5_Original ==
    /\ SortedCase
    /\ (call.op = "sorted_row_labels" /\ Proper(old)) =>
         /\ err = "" /\ Len(res) = 1
         /\ rows(View(heap, res[1])) = rows(old)
         /\ Len(old.row_labels) = rows(old) =>
              IsStableSort(View(heap, res[1]), old, LabelKeys(old))

\* C5, amended: sorted(c) as stated; sorted_row_labels() does the same with the
\* row label as the key when the matrix has a label for every row.
C5_Sorted ==
    /\ SortedCase
    /\ (call.op = "sorted_row_labels" /\ HasRows(old) /\ Len(old.row_labels) = rows(old)) =>
         /\ err = "" /\ Len(res) = 1
         /\ IsStableSort(View(heap, res[1]), old, LabelKeys(old))

\* a column with ties that is not in order, sorted
C5_Witness ==
    /\ call.op = "sorted" /\ err = ""
    /\ column(old, call.column) = <<2, 1, 2, 1>>
    /\ old.row_labels = <<"a", "b", "b", "a">>
    /\ View(heap, res[1]).row_labels = <<"b", "a", "a", "b">>

\* the (1-based) rows of m whose column c holds v
RowsWith(m, c, v) == {i \in 1..rows(m) : At(m.elements[i], c) = v}

\* the k-th smallest member of a set of numbers
Kth(S, k) == CHOOSE i \in S : Cardinality({j \in S : j < i}) = k - 1

\* g holds, in their original order, all and only the rows of m (with their
\* labels) whose column c holds v
IsGroup(g, m, c, v) ==
    /\ rows(g) = Cardinality(RowsWith(m, c, v))
    /\ Len(g.row_labels) = (IF Len(m.row_labels) > 0 THEN rows(g) ELSE 0)
    /\ \A k \in 1..rows(g) :
         /\ g.elements[k] = m.elements[Kth(RowsWith(m, c, v), k)]
         /\ Len(m.row_labels) > 0 => g.row_labels[k] = m.row_labels[Kth(RowsWith(m, c, v), k)]

\* C6: discrete_split(c) returns exactly one matrix per distinct value of column
\* c; each holds, in original row order, all and only the rows whose column-c
\* value is the group's value: the groups' row sets are pairwise disjoint and
\* their union is the set of all rows.
C6_DiscreteSplit ==
    (call.op = "discrete_split" /\ HasRows(old) /\ call.column < columns(old)) =>
        /\ err = ""
        /\ Len(res) = Cardinality(Elts(column(old, call.column)))
        /\ \A g \in 1..Len(res) :
             /\ rows(View(heap, res[g])) >= 1
             /\ IsGroup(View(heap, res[g]), old, call.column,
                        At(View(heap, res[g]).elements[1], call.column))
        /\ \A g, h \in 1..Len(res) :
             g # h => At(View(heap, res[g]).elements[1], call.column)
                        # At(View(heap, res[h]).elements[1], call.column)

\* two groups, one of them of rows that are not adjacent
C6_Witness ==
    /\ call.op = "discrete_split" /\ err = ""
    /\ column(old, call.column) = <<1, 2, 1>>
    /\ Len(old.row_labels) = 3
    /\ Len(res) = 2
    /\ \E g \in 1..2 : rows(View(heap, res[g])) = 2

Abs(x) == IF x < 0 THEN 0 - x ELSE x

\* C7: for every matrix with at least one row and every outcome of the shuffle,
\* random_split() returns (a, b) built from disjoint sets of row indices that
\* cover every row once, with rows(a) + rows(b) = rows(m) and sizes at most 1 apart.
\* (Checked on matrices with at least one row and one column.)
C7_RandomSplit ==
    (call.op = "random_split" /\ Proper(old)) =>
        /\ err = "" /\ Len(res) = 2
        /\ LET a == View(heap, res[1])
               b == View(heap, res[2])
           IN  /\ rows(a) + rows(b) = rows(old)
               /\ Abs(rows(a) - rows(b)) <= 1
               /\ \E p \in Perms(rows(old)) :
                    a.elements \o b.elements = [k \in 1..rows(old) |-> At(old.elements, p[k])]

\* the rows of the result whose column c holds v
CountOf(m, c, v) == Cardinality(RowsWith(m, c, v))

\* C8: class_subset(column, n) never returns an unbalanced sample: with at least
\* two distinct values and at least n rows in every group the result holds
\* exactly n rows of each value; it fails when a group has fewer than n rows, and
\* when there are fewer than two groups.
C8_ClassSubset ==
    (call.op = "class_subset" /\ HasRows(old) /\ call.column < columns(old)) =>
        LET values == Elts(column(old, call.column))
            enough == \A v \in values : CountOf(old, call.column, v) >= call.n
        IN  /\ (Cardinality(values) >= 2 /\ enough) =>
                 /\ err = "" /\ Len(res) = 1
                 /\ rows(View(heap, res[1])) = call.n * Cardinality(values)
                 /\ \A v \in values : CountOf(View(heap, res[1]), call.column, v) = call.n
            /\ ~enough => err # ""
            /\ Cardinality(values) < 2 => err # ""

Unique(lst) == Cardinality(Elts(lst)) = Len(lst)

\* C3: merge is all-or-nothing: when self.merge(other) fails because a row label
\* of other does not exist in self, self is exactly what it was before the call.
\* (Checked on receivers with at least one row and one column.)
C3_MergeAllOrNothing ==
    (call.op = "merge" /\ err = "ValueError" /\ Proper(old)) => View(heap, Self) = old

\* what C10 promises of the receiver after self.merge(other)
MergedOk(m, before, other) ==
    /\ Rectangular(m)
    /\ (Len(m.column_labels) > 0 /\ HasRows(m)) => Len(m.column_labels) - 1 = columns(m)
    /\ rows(m) = rows(before)
    /\ \A i \in 1..Len(before.row_labels) :
         before.row_labels[i] \in Elts(other.row_labels) =>
            m.elements[i] =
              before.elements[i] \o At(other.elements, IndexOf(other.row_labels, before.row_labels[i]))

\* C10 as stated: if self and other satisfy the structural invariants, both have
\* unique row labels and every row label of other exists in self, then after
\* self.merge(other) all rows of self have the same length, len(column_labels) - 1
\* is the column count when column labels are present, and each row whose label
\* occurs in other is its old contents followed by other's values for that label.
\* (Read with row labels in use in both matrices, as merge assumes: each has a
\* row, a column and a label for every row.)
C10_Original ==
    (/\ call.op = "merge"
     /\ WellFormed(old) /\ WellFormed(call.other)
     /\ Proper(old) /\ Proper(call.other)
     /\ Len(old.row_labels) = rows(old) /\ Len(call.other.row_labels) = rows(call.other)
     /\ Unique(old.row_labels) /\ Unique(call.other.row_labels)
     /\ Elts(call.other.row_labels) \subseteq Elts(old.row_labels)) =>
        /\ err = ""
        /\ MergedOk(View(heap, Self), old, call.other)

\* C10, amended: the same when, besides, self and other each have a label for
\* every row, the two have the same set of row labels, and column labels are
\* present in both or in neither.  Then validate() passes whenever there are
\* column labels (duplicate labels allowed).
C10_Merge ==
    (/\ call.op = "merge"
     /\ WellFormed(old) /\ WellFormed(call.other)
     /\ Unique(old.row_labels) /\ Unique(call.other.row_labels)
     /\ Len(old.row_labels) = rows(old) /\ Len(call.other.row_labels) = rows(call.other)
     /\ Elts(call.other.row_labels) = Elts(old.row_labels)
     /\ (Len(old.column_labels) > 0) = (Len(call.other.column_labels) > 0)) =>
        /\ err = ""
        /\ MergedOk(View(heap, Self), old, call.other)
        /\ View(heap, Self).row_labels = old.row_labels
        /\ View(heap, Self).column_labels =
             old.column_labels \o Drop(call.other.column_labels, 1)
        /\ Len(old.column_labels) > 0 => validate(View(heap, Self), TRUE) = ""

\* two labelled 2-row matrices with their labels in opposite orders, merged
C10_Witness ==
    /\ call.op = "merge" /\ err = ""
    /\ old.row_labels = <<"a", "b">> /\ call.other.row_labels = <<"b", "a">>
    /\ Len(old.column_labels) = 3 /\ Len(call.other.column_labels) = 3
    /\ View(heap, Self).elements = <<<<1, 2, 103, 104>>, <<3, 4, 101, 102>>>>
    /\ View(heap, Self).column_labels = <<"id", "c0", "c1", "c0", "c1">>

\* C2: every non-destructive operation returns a matrix that shares no mutable
\* list with its source: whatever in-place mutations are applied to the returned
\* matrix, the source's elements, row_labels and column_labels stay as they were.
\* (Checked on sources with at least one row and one column.)
C2_NoSharedLists ==
    (call.op \in NonDestructive \cup {"transpose.transpose"} /\ Proper(old)) =>
        View(heap, Self) = old

\* C9: the pure transforms preserve the structural invariants: from a matrix that
\* is rectangular, with row_labels empty or one per row and column_labels empty or
\* one per column plus one, every matrix returned is so too.
\* (Checked on matrices with at least one row and one column.)
C9_TransformsKeepInvariants ==
    (call.op \in NonDestructive /\ err = "" /\ muts = 0 /\ WellFormed(old) /\ Proper(old)) =>
        \A k \in 1..Len(res) : WellFormed(View(heap, res[k]))

====
